---- MODULE Spec2Model ----
(***************************************************************************)
(* Model of temp_replace.py: a nine-line script that reads one file, finds *)
(* two literal markers with str.index, splices a fixed block between them  *)
(* and writes the file back.  Texts are TLA+ strings; Python's 0-based     *)
(* indices are kept (s[k] is SubSeq(s, k+1, k+1)).                         *)
(***************************************************************************)
EXTENDS Integers, Sequences, FiniteSets, TLC

\* Number of fragments the file on disk is assembled from.
MaxPieces == 4

\* Number of times the script is invoked on the same file.
MaxRuns == 2

VARIABLES
    file,      \* content of the file at `path` (line 3)
    text,      \* the script's variable `text` (lines 4, 8)
    start,     \* the script's variable `start` (line 5); -1 while unbound
    end,       \* the script's variable `end` (line 6); -1 while unbound
    block,     \* the script's variable `block` (line 7); "" while unbound
    pc,        \* next line to execute: "l4".."l9", "done" or "failed"
    error,     \* exception that ended the run ("" when none)
    document,  \* history: what read_text returned in this run
    trace,     \* history: the steps this run has executed, in order
    runs       \* history: one record per finished earlier run

vars == <<file, text, start, end, block, pc, error, document, trace, runs>>

\* The literal searched at line 5.
StartMarker == "const RoleRecommendations"

\* The literal searched at line 6.
EndMarker == "const RecommendationDetailDialog"

\* A block that still declares the component the script is removing.
BlockKeepingMarker == "const RoleRecommendations = () => null;\n"

\* The literal assigned at line 7.
BlockLiteral == "const RoleColumns = () => null;\n"

\* Fragments of TypeScript source the file is assembled from: both markers,
\* pieces that begin like a marker without completing it, and filler.
Pieces ==
    {StartMarker, EndMarker, "const ", "const Role", "Recommendation", "x\n"}

\* All files made of at most n fragments.
RECURSIVE Documents(_)
Documents(n) ==
    IF n = 0 THEN {""}
    ELSE LET D == Documents(n - 1) IN D \cup {d \o p : d \in D, p \in Pieces}

\* 0-based indices k with s[k : k+len(sub)] == sub.
Occurrences(s, sub) ==
    {k \in 0..(Len(s) - Len(sub)) : SubSeq(s, k + 1, k + Len(sub)) = sub}

Min(S) == CHOOSE k \in S : \A m \in S : k <= m

Max(S) == CHOOSE k \in S : \A m \in S : k >= m

\* str.rindex: the highest index instead of the lowest.
rindex(s, sub) == Max(Occurrences(s, sub))

\* str.index(sub) with no start argument: lowest index, scanning from 0.
\* Defined when sub occurs; the caller raises ValueError otherwise.
index(s, sub) == Min(Occurrences(s, sub))

\* s[:k]
SliceTo(s, k) == SubSeq(s, 1, k)

\* s[k:]
SliceFrom(s, k) == SubSeq(s, k + 1, Len(s))

\* The splice dropping one character too many of the tail.
SpliceSkippingFirst(t, s, b, e) == SliceTo(t, s) \o b \o SliceFrom(t, e + 1)

\* text[:start] + block + text[end:]
Splice(t, s, b, e) == SliceTo(t, s) \o b \o SliceFrom(t, e)

Init ==
    /\ file \in Documents(MaxPieces)
    /\ text = ""
    /\ start = -1
    /\ end = -1
    /\ block = ""
    /\ pc = "l4"
    /\ error = ""
    /\ document = ""
    /\ trace = <<>>
    /\ runs = <<>>

\* text = path.read_text(encoding='utf-8')
Line4 ==
    /\ pc = "l4"
    /\ text' = file
    /\ document' = file
    /\ trace' = Append(trace, "read")
    /\ pc' = "l5"
    /\ UNCHANGED <<file, start, end, block, error, runs>>

\* Line 5 written with str.find: a missing marker yields an index instead
\* of raising, and the script carries on.
Line5Find ==
    /\ pc = "l5"
    /\ trace' = Append(trace, "index_start")
    /\ start' = IF Occurrences(text, StartMarker) = {}
                THEN 0 ELSE index(text, StartMarker)
    /\ pc' = "l6"
    /\ UNCHANGED <<file, text, end, block, error, document, runs>>

\* start = text.index('const RoleRecommendations')
Line5 ==
    /\ pc = "l5"
    /\ trace' = Append(trace, "index_start")
    /\ IF Occurrences(text, StartMarker) = {}
       THEN /\ pc' = "failed"
            /\ error' = "ValueError"
            /\ UNCHANGED start
       ELSE /\ start' = index(text, StartMarker)
            /\ pc' = "l6"
            /\ UNCHANGED error
    /\ UNCHANGED <<file, text, end, block, document, runs>>

\* Line 6 falling back to the end of the text when the marker is missing.
Line6Lenient ==
    /\ pc = "l6"
    /\ trace' = Append(trace, "index_end")
    /\ end' = IF Occurrences(text, EndMarker) = {}
              THEN Len(text) ELSE index(text, EndMarker)
    /\ pc' = "l7"
    /\ UNCHANGED <<file, text, start, block, error, document, runs>>

\* end = text.index('const RecommendationDetailDialog')
Line6 ==
    /\ pc = "l6"
    /\ trace' = Append(trace, "index_end")
    /\ IF Occurrences(text, EndMarker) = {}
       THEN /\ pc' = "failed"
            /\ error' = "ValueError"
            /\ UNCHANGED end
       ELSE /\ end' = index(text, EndMarker)
            /\ pc' = "l7"
            /\ UNCHANGED error
    /\ UNCHANGED <<file, text, start, block, document, runs>>

\* block = 'const RoleColumns = () => null;\n'
Line7 ==
    /\ pc = "l7"
    /\ block' = BlockLiteral
    /\ trace' = Append(trace, "block")
    /\ pc' = "l8"
    /\ UNCHANGED <<file, text, start, end, error, document, runs>>

\* text = text[:start] + block + text[end:]
Line8 ==
    /\ pc = "l8"
    /\ text' = Splice(text, start, block, end)
    /\ trace' = Append(trace, "splice")
    /\ pc' = "l9"
    /\ UNCHANGED <<file, start, end, block, error, document, runs>>

\* The write moved up: the file is written as soon as it has been read.
Line9Early ==
    /\ pc \in {"l5", "l9"}
    /\ file' = text
    /\ trace' = Append(trace, "write")
    /\ pc' = "done"
    /\ UNCHANGED <<text, start, end, block, error, document, runs>>

\* path.write_text(text, encoding='utf-8')
Line9 ==
    /\ pc = "l9"
    /\ file' = text
    /\ trace' = Append(trace, "write")
    /\ pc' = "done"
    /\ UNCHANGED <<text, start, end, block, error, document, runs>>

\* The script is invoked again on the file the previous run left behind:
\* a fresh interpreter, every variable unbound again.
Rerun ==
    /\ pc \in {"done", "failed"}
    /\ Len(runs) + 1 < MaxRuns
    /\ runs' = Append(runs, [document |-> document, start |-> start,
                             end |-> end, pc |-> pc, file |-> file,
                             trace |-> trace])
    /\ text' = ""
    /\ start' = -1
    /\ end' = -1
    /\ block' = ""
    /\ pc' = "l4"
    /\ error' = ""
    /\ document' = ""
    /\ trace' = <<>>
    /\ UNCHANGED file

Next ==
    \/ Line4
    \/ Line5
    \/ Line6
    \/ Line7
    \/ Line8
    \/ Line9
    \/ Rerun

Spec == Init /\ [][Next]_vars

TypeOK ==
    /\ pc \in {"l4", "l5", "l6", "l7", "l8", "l9", "done", "failed"}
    /\ error \in {"", "ValueError"}
    /\ start \in -1..Len(document)
    /\ end \in -1..Len(document)
    /\ Len(runs) < MaxRuns

----------------------------------------------------------------------------
(***************************************************************************)
(* Properties.  They are stated over the history variables and over the   *)
(* helpers below, which describe marker positions without using the       *)
(* script's own search and slicing operators.                              *)
(***************************************************************************)

\* sub occurs in s at 0-based index k.
HasAt(s, sub, k) ==
    /\ k >= 0
    /\ k + Len(sub) <= Len(s)
    /\ \A n \in 1..Len(sub) : SubSeq(s, k + n, k + n) = SubSeq(sub, n, n)

\* Indices at or after from where sub occurs in s.
HitsFrom(s, sub, from) == {k \in from..Len(s) : HasAt(s, sub, k)}

\* k is the lowest index at or after from where sub occurs in s.
IsFirstFrom(s, sub, from, k) ==
    /\ k \in HitsFrom(s, sub, from)
    /\ \A m \in HitsFrom(s, sub, from) : k <= m

\* The written result of a run that read d and found indices i and j.
Expected(d, i, j) ==
    SubSeq(d, 1, i) \o "const RoleColumns = () => null;\n" \o SubSeq(d, j + 1, Len(d))

Succeeded == pc = "done"

Terminated == pc \in {"done", "failed"}

C2_EndSearchedFromStart ==
    pc \in {"l7", "l8", "l9", "done"} =>
        /\ end >= start
        /\ IsFirstFrom(document, EndMarker, start, end)

\* C3: a document without the start marker fails at the start-marker search
\* with the not-found error, whether or not the end marker is present, and
\* no result text is produced.
C3_MissingStartFails ==
    (pc \notin {"l4", "l5"} /\ HitsFrom(document, StartMarker, 0) = {}) =>
        /\ pc = "failed"
        /\ error = "ValueError"
        /\ trace = <<"read", "index_start">>
        /\ start = -1 /\ end = -1
        /\ text = document
        /\ file = document

C3_Witness ==
    /\ pc = "failed"
    /\ HitsFrom(document, StartMarker, 0) = {}
    /\ HitsFrom(document, EndMarker, 0) # {}

\* C4: a document with the start marker first at index i and no end marker
\* at any index >= i fails with the not-found error, also when the end
\* marker occurs before i.
C4_NoEndAfterStartFails ==
    (/\ pc \notin {"l4", "l5", "l6"}
     /\ HitsFrom(document, StartMarker, 0) # {}
     /\ \A i \in HitsFrom(document, StartMarker, 0) :
            IsFirstFrom(document, StartMarker, 0, i)
                => HitsFrom(document, EndMarker, i) = {}) =>
        /\ pc = "failed"
        /\ error = "ValueError"

\* C5: a run is all-or-nothing for the file: either both searches succeeded
\* and the complete spliced text was written, or a search failed, the write
\* was never reached and the file is what was read.
C5_AllOrNothing ==
    pc # "l4" =>
        IF Succeeded
        THEN /\ HasAt(document, StartMarker, start)
             /\ HasAt(document, EndMarker, end)
             /\ file = Expected(document, start, end)
        ELSE /\ file = document
             /\ \A n \in 1..Len(trace) : trace[n] # "write"
             /\ (pc = "failed" => error = "ValueError")

C5_Witness ==
    /\ pc = "failed"
    /\ trace = <<"read", "index_start", "index_end">>
    /\ start >= 0
    /\ file = document
    /\ file # Expected(document, start, Len(document))

\* C6: when the start marker is present and the end marker occurs at or
\* after the start marker's index, the result's length is
\* i + len(replacement) + (len(document) - j), i the first index of the
\* start marker and j the first index of the end marker scanning from i.
C6_ResultLength ==
    (Succeeded /\ HitsFrom(document, EndMarker, start) # {}) =>
        \A i \in HitsFrom(document, StartMarker, 0) :
        \A j \in HitsFrom(document, EndMarker, i) :
            (IsFirstFrom(document, StartMarker, 0, i)
                /\ IsFirstFrom(document, EndMarker, i, j))
            => Len(file) = i + Len(BlockLiteral) + (Len(document) - j)

\* C7: with several start markers in the document the splice starts at the
\* lowest-index one: everything before it is kept and a later occurrence
\* never is the splice start.
C7_FirstStartMarkerUsed ==
    pc \in {"l6", "l7", "l8", "l9", "done"} =>
        /\ IsFirstFrom(document, StartMarker, 0, start)
        /\ (Succeeded =>
              /\ SubSeq(file, 1, start) = SubSeq(document, 1, start)
              /\ HasAt(file, BlockLiteral, start))

C7_Witness ==
    /\ Succeeded
    /\ start > 0
    /\ Cardinality(HitsFrom(document, StartMarker, 0)) >= 2
    /\ SubSeq(file, 1, start) = SubSeq(document, 1, start)

\* The two literals cannot overlap: no proper suffix of the start marker,
\* nor the marker itself, begins the way the end marker begins.
MarkersCanOverlap ==
    \E k \in 0..(Len(StartMarker) - 1) :
        LET n == IF Len(StartMarker) - k < Len(EndMarker)
                 THEN Len(StartMarker) - k ELSE Len(EndMarker)
        IN  SubSeq(StartMarker, k + 1, k + n) = SubSeq(EndMarker, 1, n)

\* The case of an end marker beginning inside the start marker's occurrence
\* arises in no run.
EndNeverInsideStart ==
    /\ ~MarkersCanOverlap
    /\ pc \notin {"l4", "l5"} =>
         \A i \in HitsFrom(document, StartMarker, 0) :
             HitsFrom(document, EndMarker, i)
                 \cap (i..(i + Len(StartMarker) - 1)) = {}

Steps == <<"read", "index_start", "index_end", "block", "splice", "write">>

\* C9: each run reads the file once and writes it at most once, in the order
\* read, start search, end search, splice, write; the write never comes
\* before the read or a search, and the searches and the splice work on the
\* one snapshot that read took.
C9_ReadSearchSpliceWrite ==
    /\ Len(trace) <= Len(Steps)
    /\ \A n \in 1..Len(trace) : trace[n] = Steps[n]
    /\ (pc # "l4" => Len(trace) >= 1)
    /\ (Succeeded <=> trace = Steps)
    /\ (pc \in {"l5", "l6", "l7", "l8"} => text = document /\ file = document)
    /\ (pc \in {"l9", "done"} => text = Expected(document, start, end))

C9_Witness ==
    /\ Succeeded
    /\ trace = Steps
    /\ file # document

\* Every start marker of d begins inside the removed span [i, j).
AllStartsRemoved(d, i, j) ==
    \A k \in HitsFrom(d, StartMarker, 0) : i <= k /\ k < j

\* C10: after a successful run that removed every occurrence of the start
\* marker, the file no longer contains the start marker, so the next run
\* fails at the start-marker search and leaves the file as that run wrote it.
C10_SecondRunFails ==
    (/\ Len(runs) >= 1
     /\ runs[Len(runs)].pc = "done"
     /\ AllStartsRemoved(runs[Len(runs)].document, runs[Len(runs)].start,
                         runs[Len(runs)].end)) =>
        /\ HitsFrom(runs[Len(runs)].file, StartMarker, 0) = {}
        /\ file = runs[Len(runs)].file
        /\ pc \in {"l4", "l5", "failed"}
        /\ (pc = "failed" => trace = <<"read", "index_start">>)

C10_Witness ==
    /\ Len(runs) >= 1
    /\ runs[Len(runs)].pc = "done"
    /\ AllStartsRemoved(runs[Len(runs)].document, runs[Len(runs)].start,
                        runs[Len(runs)].end)
    /\ runs[Len(runs)].start > 0
    /\ pc = "failed"
    /\ file = runs[Len(runs)].file
    /\ file # runs[Len(runs)].document
====
